---- MODULE Spec2Model ----
(***************************************************************************)
(* The message service of application.py: the Flask handlers index,        *)
(* health, list_messages, create_message and delete_message over one       *)
(* DynamoDB table keyed by (room_id, msg_id).                               *)
(*                                                                         *)
(* Strings that the code slices, compares or sorts are sequences of        *)
(* one-character strings; room ids are only ever compared for equality     *)
(* and stay atoms.  A request handler is one action: it makes at most one  *)
(* storage call, and DynamoDB applies a conditional write atomically, so   *)
(* concurrent requests are interleavings of these actions.  The table is   *)
(* the store the handlers are written against: a query returns what the    *)
(* completed writes left, in one page.  Milliseconds count from the start  *)
(* of a run, far below the 48 bits a ULID keeps of them.                   *)
(***************************************************************************)
EXTENDS Integers, Sequences, FiniteSets, TLC

VARIABLES
    table,    \* the DynamoDB table: the items of each room_id, by msg_id
    backend,  \* "ok", or "throttled" while DynamoDB answers with an error
    now,      \* the wall clock, in milliseconds
    last,     \* the last request handled and the response it got
    acked,    \* history: items answered 201 whose key got no 204 since
    gone,     \* history: keys whose latest 201/204 answer is a 204
    n201,     \* history: number of 201 responses
    n204      \* history: number of 204 responses

vars == <<table, backend, now, last, acked, gone, n201, n204>>

-----------------------------------------------------------------------------
(* Bounds of the model *)

MaxCreates == 3
MaxTime == 1
RoomCreates == 3
BulkCreates == 52
InputCreates == 2

-----------------------------------------------------------------------------
(* Program constants *)

MaxUserLen == 64
MaxTextLen == 4096
DefaultLimit == 50
UlidTimeChars == 10
UlidRandChars == 16

\* the process environment: DDB_TABLE is not set, AWS_REGION is
Environ == [AWS_REGION |-> "eu-west-1"]

\* os.getenv(name, default)
GetEnv(name, default) == IF name \in DOMAIN Environ THEN Environ[name] ELSE default

TABLE_NAME == GetEnv("DDB_TABLE", "talk_messages")
AWS_REGION == GetEnv("AWS_REGION", "us-east-1")

-----------------------------------------------------------------------------
(* Python and JSON values *)

Min(a, b) == IF a < b THEN a ELSE b

\* s[:n] on a str
Slice(s, n) == SubSeq(s, 1, Min(Len(s), n))

Rep(c, n) == [i \in 1..n |-> c]

DecDigit == <<"0", "1", "2", "3", "4", "5", "6", "7", "8", "9">>

RECURSIVE Dec(_)
Dec(n) == IF n < 10 THEN <<DecDigit[n + 1]>>
          ELSE Append(Dec(n \div 10), DecDigit[(n % 10) + 1])

IsDigit(c) == \E i \in 1..10 : DecDigit[i] = c
DigitVal(c) == (CHOOSE i \in 1..10 : DecDigit[i] = c) - 1

RECURSIVE DecVal(_)
DecVal(s) == IF s = <<>> THEN 0
             ELSE 10 * DecVal(SubSeq(s, 1, Len(s) - 1)) + DigitVal(s[Len(s)])

\* int(s) on a str: an optional sign and decimal digits, ValueError otherwise
IntParses(s) ==
    LET d == IF s # <<>> /\ s[1] = "-" THEN Tail(s) ELSE s
    IN  d # <<>> /\ \A i \in 1..Len(d) : IsDigit(d[i])
PyInt(s) == IF s[1] = "-" THEN 0 - DecVal(Tail(s)) ELSE DecVal(s)

JStr(s) == [t |-> "str", s |-> s]
JInt(n) == [t |-> "int", n |-> n]
JNull == [t |-> "null"]

\* str(v) on a JSON value
PyStr(v) == CASE v.t = "str" -> v.s
              [] v.t = "int" -> Dec(v.n)
              [] v.t = "null" -> <<"N", "o", "n", "e">>

ANONYMOUS == <<"a", "n", "o", "n", "y", "m", "o", "u", "s">>
EMPTY == <<>>

\* request bodies: no body (or not JSON), a JSON array, a JSON object
NoBody == [kind |-> "missing"]
JArray(n) == [kind |-> "array", len |-> n]
JObject(f) == [kind |-> "object", fields |-> f]

\* bool(x) of what get_json returned
Truthy(body) == CASE body.kind = "missing" -> FALSE
                  [] body.kind = "array" -> body.len > 0
                  [] body.kind = "object" -> DOMAIN body.fields # {}

\* request.get_json(force=True, silent=True) or {}
Payload(body) == IF Truthy(body) THEN body ELSE JObject(<<>>)

\* payload.get(k, d) on a dict
DictGet(payload, k, d) ==
    IF k \in DOMAIN payload.fields THEN payload.fields[k] ELSE d

-----------------------------------------------------------------------------
(* ulid.new() and str(): 48 bits of milliseconds and 80 random bits as 26  *)
(* Crockford base-32 characters, most significant first.                   *)

Crockford == <<"0", "1", "2", "3", "4", "5", "6", "7", "8", "9",
               "A", "B", "C", "D", "E", "F", "G", "H", "J", "K",
               "M", "N", "P", "Q", "R", "S", "T", "V", "W", "X",
               "Y", "Z">>

\* the base-32 digit of n at 32^e (n is below 2^31 here, so none from 32^7 on)
Digit32(n, e) == IF e > 6 THEN 0 ELSE (n \div (32 ^ e)) % 32

Base32(n, w) == [k \in 1..w |-> Crockford[Digit32(n, w - k) + 1]]

ulid_new(ms, rnd) == Base32(ms, UlidTimeChars) \o Base32(rnd, UlidRandChars)

\* code points of the characters a sort key is made of
CodePoint(c) ==
    LET i == CHOOSE j \in 1..32 : Crockford[j] = c
    IN  IF i <= 10 THEN 47 + i
        ELSE <<65, 66, 67, 68, 69, 70, 71, 72, 74, 75, 77, 78,
               80, 81, 82, 83, 84, 86, 87, 88, 89, 90>>[i - 10]

\* DynamoDB orders string sort keys by their bytes
\* a is a proper prefix of b, or has the smaller byte where they first differ
StrLess(a, b) ==
    \E k \in 1..Len(b) :
        /\ \A j \in 1..(k - 1) : j <= Len(a) /\ a[j] = b[j]
        /\ k > Len(a) \/ CodePoint(a[k]) < CodePoint(b[k])

-----------------------------------------------------------------------------
(* The DynamoDB table: query, put_item and delete_item as boto3 gives them. *)
(* A partition (the items of one room_id) is kept in sort-key order.       *)

Partitions == {"lobby", "dev"}

ItemsOf(tbl, room_id) == {tbl[room_id][k] : k \in 1..Len(tbl[room_id])}
Items(tbl) == UNION {ItemsOf(tbl, r) : r \in DOMAIN tbl}

\* where a partition holds the sort key
Where(p, msg_id) == {k \in 1..Len(p) : p[k].msg_id = msg_id}

Reverse(s) == [i \in 1..Len(s) |-> s[Len(s) + 1 - i]]

Throttled == "ProvisionedThroughputExceededException"
CondFailed == "ConditionalCheckFailedException"
BadParam == "ParamValidationError"
ThrottledMessage == "The level of configured provisioned throughput for the table was exceeded."
CondFailedMessage == "The conditional request failed"
BadParamMessage == "Invalid value for parameter Limit, valid min value: 1"

ErrorMessage(code) == CASE code = Throttled -> ThrottledMessage
                        [] code = CondFailed -> CondFailedMessage
                        [] code = BadParam -> BadParamMessage

\* the partition of another room
Partition_Lobby(tbl, room_id) == tbl["lobby"]

\* KeyConditionExpression=Key("room_id").eq(room_id)
Partition(tbl, room_id) == tbl[room_id]

\* Limit: the first items of the scan
Page(all, limit) == SubSeq(all, 1, Min(limit, Len(all)))

\* table.query(KeyConditionExpression, ScanIndexForward, Limit); botocore
\* refuses a Limit below 1 before anything is sent
Query(tbl, be, room_id, forward, limit) ==
    IF limit < 1 THEN [err |-> BadParam, items |-> <<>>]
    ELSE IF be # "ok" THEN [err |-> Throttled, items |-> <<>>]
    ELSE [err |-> "none",
          items |-> Page(IF forward THEN Partition(tbl, room_id)
                         ELSE Reverse(Partition(tbl, room_id)), limit)]

\* a put with no ConditionExpression
PutCondition_None(tbl, item) == TRUE

\* ConditionExpression="attribute_not_exists(msg_id)" on the item at the key
PutCondition(tbl, item) == Where(tbl[item.room_id], item.msg_id) = {}

\* the partition with the item written: in place of the item of its key, or
\* after the items of smaller sort keys
Written(p, item) ==
    LET at == Where(p, item.msg_id)
        n == Cardinality({k \in 1..Len(p) : StrLess(p[k].msg_id, item.msg_id)})
    IN  IF at # {} THEN [k \in 1..Len(p) |-> IF k \in at THEN item ELSE p[k]]
        ELSE SubSeq(p, 1, n) \o <<item>> \o SubSeq(p, n + 1, Len(p))

\* table.put_item(Item, ConditionExpression)
PutItem(tbl, be, item) ==
    IF be # "ok" THEN [err |-> Throttled, table |-> tbl]
    ELSE IF ~PutCondition(tbl, item) THEN [err |-> CondFailed, table |-> tbl]
    ELSE [err |-> "none",
          table |-> [tbl EXCEPT ![item.room_id] = Written(tbl[item.room_id], item)]]

\* a delete with no ConditionExpression
DeleteCondition_None(tbl, room_id, msg_id) == TRUE

\* ConditionExpression="attribute_exists(msg_id)" on the item at the key
DeleteCondition(tbl, room_id, msg_id) == Where(tbl[room_id], msg_id) # {}

\* the partition without the item of the key
Removed(p, msg_id) ==
    LET n == Cardinality({k \in 1..Len(p) : StrLess(p[k].msg_id, msg_id)})
    IN  IF Where(p, msg_id) = {} THEN p
        ELSE SubSeq(p, 1, n) \o SubSeq(p, n + 2, Len(p))

\* table.delete_item(Key, ConditionExpression)
DeleteItem(tbl, be, room_id, msg_id) ==
    IF be # "ok" THEN [err |-> Throttled, table |-> tbl]
    ELSE IF ~DeleteCondition(tbl, room_id, msg_id)
         THEN [err |-> CondFailed, table |-> tbl]
    ELSE [err |-> "none", table |-> [tbl EXCEPT ![room_id] = Removed(tbl[room_id], msg_id)]]

------------------------------------------------------------------------------------------------------------------------------------------------
(* The handlers: what each answers and what it leaves in the table         *)

Answer(status, body, calls, err, tbl) ==
    [status |-> status, body |-> body, calls |-> calls, err |-> err, table |-> tbl]

\* abort(code, description)
Abort(status, description, calls, err, tbl) ==
    Answer(status, [error |-> description], calls, err, tbl)

\* an exception no handler catches: Flask answers 500
Unhandled(exc, calls, tbl) == Answer(500, [error |-> exc], calls, exc, tbl)

NoLimit == [given |-> FALSE]
LimitArg(s) == [given |-> TRUE, s |-> s]

\* another default page size
LimitText_Ten(arg) == IF arg.given THEN arg.s ELSE Dec(10)

\* request.args.get("limit", "50")
LimitText(arg) == IF arg.given THEN arg.s ELSE Dec(DefaultLimit)

index_view(tbl, be) ==
    Answer(200, [template |-> "index.html"], <<>>, "none", tbl)

\* a health check that pings the table
health_view_Probing(tbl, be) ==
    IF be # "ok" THEN Abort(500, ErrorMessage(be), <<"describe_table">>, be, tbl)
    ELSE Answer(200, [status |-> "ok", table |-> TABLE_NAME, region |-> AWS_REGION],
                <<"describe_table">>, "none", tbl)

health_view(tbl, be) ==
    Answer(200, [status |-> "ok", table |-> TABLE_NAME, region |-> AWS_REGION],
           <<>>, "none", tbl)

\* ScanIndexForward=False: newest first
list_messages_view_Backward(tbl, be, room_id, arg) ==
    IF ~IntParses(LimitText(arg)) THEN Unhandled("ValueError", <<>>, tbl)
    ELSE LET resp == Query(tbl, be, room_id, FALSE, PyInt(LimitText(arg)))
         IN  IF resp.err = "none"
             THEN Answer(200, resp.items, <<"query">>, "none", tbl)
             ELSE IF resp.err = BadParam
             THEN Unhandled(BadParam, <<"query">>, tbl)
             ELSE Abort(500, ErrorMessage(resp.err), <<"query">>, resp.err, tbl)

list_messages_view(tbl, be, room_id, arg) ==
    IF ~IntParses(LimitText(arg)) THEN Unhandled("ValueError", <<>>, tbl)
    ELSE LET resp == Query(tbl, be, room_id, TRUE, PyInt(LimitText(arg)))
         IN  IF resp.err = "none"
             THEN Answer(200, resp.items, <<"query">>, "none", tbl)
             ELSE IF resp.err = BadParam
             THEN Unhandled(BadParam, <<"query">>, tbl)
             ELSE Abort(500, ErrorMessage(resp.err), <<"query">>, resp.err, tbl)

\* str(payload.get("user", "anonymous"))[:64]
NormalUser(payload) ==
    Slice(PyStr(DictGet(payload, "user", JStr(ANONYMOUS))), MaxUserLen)

\* the text uncut
NormalText_Whole(payload) == PyStr(DictGet(payload, "text", JStr(EMPTY)))

\* str(payload.get("text", ""))[:4096]
NormalText(payload) ==
    Slice(PyStr(DictGet(payload, "text", JStr(EMPTY))), MaxTextLen)

\* no validation
TextMissing_Never(text) == FALSE

\* if not text
TextMissing(text) == text = <<>>

create_message_view(tbl, be, room_id, body, t_ulid, t_ts, rnd) ==
    LET payload == Payload(body)
    IN  IF payload.kind # "object" THEN Unhandled("AttributeError", <<>>, tbl)
        ELSE LET user == NormalUser(payload)
                 text == NormalText(payload)
                 item == [room_id |-> room_id, msg_id |-> ulid_new(t_ulid, rnd),
                          ts |-> t_ts, user |-> user, text |-> text]
                 put == PutItem(tbl, be, item)
             IN  IF TextMissing(text)
                 THEN Abort(400, "text is required", <<>>, "none", tbl)
                 ELSE IF put.err = "none"
                 THEN Answer(201, item, <<"put_item">>, "none", put.table)
                 ELSE Abort(500, ErrorMessage(put.err), <<"put_item">>, put.err,
                            put.table)

\* every ClientError taken for a missing message
delete_message_view_All404(tbl, be, room_id, msg_id) ==
    LET del == DeleteItem(tbl, be, room_id, msg_id)
    IN  IF del.err = "none"
        THEN Answer(204, <<>>, <<"delete_item">>, "none", del.table)
        ELSE Abort(404, "message not found", <<"delete_item">>, del.err, del.table)

\* the failed condition swallowed
delete_message_view_Swallow(tbl, be, room_id, msg_id) ==
    LET del == DeleteItem(tbl, be, room_id, msg_id)
    IN  IF del.err = "none" \/ del.err = CondFailed
        THEN Answer(204, <<>>, <<"delete_item">>, "none", del.table)
        ELSE Abort(500, ErrorMessage(del.err), <<"delete_item">>, del.err, del.table)

delete_message_view(tbl, be, room_id, msg_id) ==
    LET del == DeleteItem(tbl, be, room_id, msg_id)
    IN  IF del.err = "none"
        THEN Answer(204, <<>>, <<"delete_item">>, "none", del.table)
        ELSE IF del.err = CondFailed
        THEN Abort(404, "message not found", <<"delete_item">>, del.err, del.table)
        ELSE Abort(500, ErrorMessage(del.err), <<"delete_item">>, del.err, del.table)

-----------------------------------------------------------------------------
(* Actions *)

NoItem == [room_id |-> "", msg_id |-> <<>>, ts |-> 0, user |-> <<>>, text |-> <<>>]

NoRequest == [op |-> "none", room_id |-> "", arg |-> <<>>, msg_id |-> <<>>,
              be |-> "ok", status |-> 0, body |-> <<>>, calls |-> <<>>,
              err |-> "none", changed |-> FALSE, after |-> NoItem]

Init ==
    /\ table = [r \in Partitions |-> <<>>]
    /\ backend = "ok"
    /\ now = 0
    /\ last = NoRequest
    /\ acked = {}
    /\ gone = {}
    /\ n201 = 0
    /\ n204 = 0

\* The response goes out.  last keeps the request (with the msg_id it names
\* or generated, and the state of DynamoDB it met) and its response, with
\* whether the table changed and, for a list request, the item that the
\* request just before it created (NoItem when that was no 201); the
\* history variables record the 201 and 204 answers.
Respond(op, room_id, arg, msg_id, r) ==
    /\ table' = r.table
    /\ last' = [op |-> op, room_id |-> room_id, arg |-> arg, msg_id |-> msg_id,
                be |-> backend, status |-> r.status,
                body |-> r.body, calls |-> r.calls, err |-> r.err,
                changed |-> (r.table # table),
                after |-> IF op = "list_messages" /\ last.op = "create_message"
                             /\ last.status = 201
                          THEN last.body ELSE NoItem]
    /\ acked' = IF op = "create_message" /\ r.status = 201
                THEN acked \cup {r.body}
                ELSE IF op = "delete_message" /\ r.status = 204
                THEN {i \in acked : ~(i.room_id = room_id /\ i.msg_id = msg_id)}
                ELSE acked
    /\ gone' = IF op = "create_message" /\ r.status = 201
               THEN gone \ {<<room_id, r.body.msg_id>>}
               ELSE IF op = "delete_message" /\ r.status = 204
               THEN gone \cup {<<room_id, msg_id>>}
               ELSE gone
    /\ n201' = IF op = "create_message" /\ r.status = 201 THEN n201 + 1 ELSE n201
    /\ n204' = IF op = "delete_message" /\ r.status = 204 THEN n204 + 1 ELSE n204

index ==
    /\ Respond("index", "", <<>>, <<>>, index_view(table, backend))
    /\ UNCHANGED <<backend, now>>

health ==
    /\ Respond("health", "", <<>>, <<>>, health_view(table, backend))
    /\ UNCHANGED <<backend, now>>

list_messages(room_id, arg) ==
    /\ Respond("list_messages", room_id, arg, <<>>,
               list_messages_view(table, backend, room_id, arg))
    /\ UNCHANGED <<backend, now>>

\* ulid.new() reads the clock at t_ulid, time.time() reads it again at t_ts
create_message(room_id, body, t_ulid, t_ts, rnd) ==
    /\ now <= t_ulid /\ t_ulid <= t_ts
    /\ LET r == create_message_view(table, backend, room_id, body, t_ulid, t_ts, rnd)
       IN  /\ Respond("create_message", room_id, body,
                      IF r.calls = <<>> THEN <<>> ELSE ulid_new(t_ulid, rnd), r)
           /\ now' = IF r.calls = <<>> THEN now ELSE t_ts
    /\ UNCHANGED backend

delete_message(room_id, msg_id) ==
    /\ Respond("delete_message", room_id, <<>>, msg_id,
               delete_message_view(table, backend, room_id, msg_id))
    /\ UNCHANGED <<backend, now>>

\* DynamoDB starts or stops answering with errors
BackendChange ==
    /\ backend' = IF backend = "ok" THEN Throttled ELSE "ok"
    /\ UNCHANGED <<table, now, last, acked, gone, n201, n204>>

-----------------------------------------------------------------------------
(* Spec: one room, ids that can fall in the same millisecond and collide   *)

Randomness == {0, 1}
Elapsed == {0, 1}

HI == <<"h", "i">>
ALICE == <<"a", "l", "i", "c", "e">>
UNKNOWN_ID == <<"u", "n", "k", "n", "o", "w", "n", "-", "i", "d">>

Ulids(times, rands) == {ulid_new(t, r) : t \in times, r \in rands}

Create ==
    /\ n201 < MaxCreates
    /\ \E body \in {NoBody, JObject([text |-> JStr(HI)])},
          d1 \in Elapsed, d2 \in Elapsed, rnd \in Randomness :
          /\ now + d1 + d2 <= MaxTime
          /\ create_message("lobby", body, now + d1, now + d1 + d2, rnd)

List == \E arg \in {NoLimit, LimitArg(<<"1">>)} : list_messages("lobby", arg)

Delete == \E msg_id \in Ulids(0..MaxTime, Randomness) : delete_message("lobby", msg_id)

Next == index \/ health \/ List \/ Create \/ Delete \/ BackendChange

Spec == Init /\ [][Next]_vars

-----------------------------------------------------------------------------
(* SpecRooms: two rooms *)

Rooms == {"lobby", "dev"}

RoomsCreate ==
    /\ n201 < RoomCreates
    /\ \E room_id \in Rooms, d1 \in Elapsed, d2 \in Elapsed :
          /\ now + d1 + d2 <= MaxTime
          /\ create_message(room_id, JObject([text |-> JStr(HI)]),
                            now + d1, now + d1 + d2, 0)

RoomsList == \E room_id \in Rooms : list_messages(room_id, NoLimit)

RoomsDelete ==
    \E room_id \in Rooms, msg_id \in Ulids(0..MaxTime, {0}) :
        delete_message(room_id, msg_id)

NextRooms ==
    index \/ health \/ RoomsList \/ RoomsCreate \/ RoomsDelete \/ BackendChange

SpecRooms == Init /\ [][NextRooms]_vars

-----------------------------------------------------------------------------
(* SpecBulk: one room filled past the default limit of a list, one message *)
(* per millisecond                                                         *)

BulkCreate ==
    /\ n201 < BulkCreates
    /\ create_message("lobby", JObject([text |-> JStr(HI)]), now + 1, now + 1, 0)

BulkList == list_messages("lobby", NoLimit)

NextBulk == index \/ health \/ BulkList \/ BulkCreate

SpecBulk == Init /\ [][NextBulk]_vars

-----------------------------------------------------------------------------
(* SpecInput: the request bodies and query strings the handlers normalise  *)

LongUser == Rep("u", MaxUserLen + 1)
LongText == Rep("x", MaxTextLen + 1)

InputBodies ==
    {NoBody, JArray(0), JArray(1), JObject(<<>>),
     JObject([text |-> JStr(EMPTY)]),
     JObject([user |-> JStr(ALICE)]),
     JObject([text |-> JStr(HI)]),
     JObject([user |-> JStr(ALICE), text |-> JStr(HI)]),
     JObject([user |-> JNull, text |-> JInt(0)]),
     JObject([user |-> JStr(Rep("u", MaxUserLen)), text |-> JStr(Rep("x", MaxTextLen))]),
     JObject([user |-> JStr(LongUser), text |-> JStr(LongText)])}

InputLimits == {NoLimit, LimitArg(<<"2">>), LimitArg(<<"0">>), LimitArg(<<"-", "1">>),
                LimitArg(<<"x">>)}

InputCreate ==
    /\ n201 < InputCreates
    /\ \E body \in InputBodies : create_message("lobby", body, now, now, 0)

InputList == \E arg \in InputLimits : list_messages("lobby", arg)

InputDelete == \E msg_id \in {ulid_new(0, 0), UNKNOWN_ID} : delete_message("lobby", msg_id)

NextInput ==
    index \/ health \/ InputList \/ InputCreate \/ InputDelete \/ BackendChange

SpecInput == Init /\ [][NextInput]_vars

-----------------------------------------------------------------------------
(* Properties *)

KeyOf(i) == <<i.room_id, i.msg_id>>
Keys(S) == {KeyOf(i) : i \in S}
LastKey == <<last.room_id, last.msg_id>>

\* a step in which a request was answered (DynamoDB's state did not flip)
RequestStep == backend' = backend

\* position of a character in the Crockford alphabet, and the millisecond
\* that the first ten characters of a msg_id spell
CrockfordValue(c) == (CHOOSE j \in 1..32 : Crockford[j] = c) - 1

RECURSIVE Base32Value(_, _, _)
Base32Value(s, k, acc) ==
    IF k > Len(s) THEN acc ELSE Base32Value(s, k + 1, acc * 32 + CrockfordValue(s[k]))

UlidTime(msg_id) == Base32Value(SubSeq(msg_id, 1, UlidTimeChars), 1, 0)

\* C1: a created message is deleted with 204 exactly once.  A delete request
\* is answered 204 only for a key that a 201 returned and that no 204 was
\* answered for since, however delete requests interleave, so at most one of
\* them gets the 204; with DynamoDB answering, the delete of a stored message
\* gets 204 and every delete after a 204 for the key (until a create returns
\* that key again) gets 404, and a 500 when DynamoDB throttles.
C1_DeleteStep ==
    (RequestStep /\ last'.op = "delete_message") =>
        LET k == <<last'.room_id, last'.msg_id>>
        IN  /\ last'.status = 204 => (k \in Keys(acked) /\ k \notin gone)
            /\ (k \in Keys(acked) /\ backend = "ok") => last'.status = 204
            /\ k \in gone => last'.status = (IF backend = "ok" THEN 404 ELSE 500)

C1_DeleteOnce == [][C1_DeleteStep]_vars

\* a second delete of a deleted message was answered 404
C1_Witness ==
    /\ last.op = "delete_message" /\ last.status = 404
    /\ LastKey \in gone
    /\ n204 >= 1

\* C3: rooms are isolated.  Every record in the answer to list_messages(B)
\* is a stored record with room_id = B, whatever the other rooms hold.
C3_RoomsIsolated ==
    (last.op = "list_messages" /\ last.status = 200) =>
        \A k \in 1..Len(last.body) :
            /\ last.body[k].room_id = last.room_id
            /\ last.body[k] \in Items(table)

\* a room was listed, non-empty, while the other room held a message
C3_Witness ==
    /\ last.op = "list_messages" /\ last.status = 200
    /\ last.room_id = "dev" /\ Len(last.body) >= 1
    /\ ItemsOf(table, "lobby") # {}

\* the answer to a list request is the first min(limit, n) of the room's n
\* stored messages, in ascending msg_id order
FirstAscending ==
    LET room == ItemsOf(table, last.room_id)
        lim == PyInt(LimitText(last.arg))
        b == last.body
    IN  /\ last.status = 200
        /\ Len(b) = Min(lim, Cardinality(room))
        /\ \A k \in 1..Len(b) : b[k] \in room
        /\ \A j, k \in 1..Len(b) : j < k => StrLess(b[j].msg_id, b[k].msg_id)
        /\ \A i \in room :
              (\A k \in 1..Len(b) : b[k] # i) =>
                  \A k \in 1..Len(b) : StrLess(b[k].msg_id, i.msg_id)

ListedAfterCreate ==
    /\ last.op = "list_messages" /\ last.status = 200
    /\ last.arg = NoLimit
    /\ last.after # NoItem /\ last.after.room_id = last.room_id

\* C2 as claimed: a create_message followed immediately by a default-limit
\* list_messages of the same room gets a list with exactly one record of that
\* text and room_id, whatever the room already holds.
C2_Original ==
    ListedAfterCreate =>
        Cardinality({k \in 1..Len(last.body) :
                        /\ last.body[k].text = last.after.text
                        /\ last.body[k].room_id = last.after.room_id}) = 1

\* C2, amended: a create_message answered 201 followed immediately by a
\* default-limit list_messages of the same room answered 200 gets a list
\* that holds the created record exactly once (its msg_id, with that text
\* and room_id) when fewer than 50 stored records of the room have a smaller
\* msg_id, and not at all otherwise.
C2_CreateThenList ==
    ListedAfterCreate =>
        LET older == {i \in ItemsOf(table, last.room_id) :
                         StrLess(i.msg_id, last.after.msg_id)}
            hits == {k \in 1..Len(last.body) :
                         last.body[k].msg_id = last.after.msg_id}
        IN  IF Cardinality(older) < DefaultLimit
            THEN Cardinality(hits) = 1 /\ \A k \in hits : last.body[k] = last.after
            ELSE hits = {}

\* the fiftieth message of a room was created and then listed, last of 50
C2_Witness ==
    /\ ListedAfterCreate
    /\ Len(last.body) = DefaultLimit
    /\ last.body[DefaultLimit] = last.after

\* what a create request supplies under a key of its body, as a str
Supplied(body, k, d) ==
    IF body.kind = "object" /\ k \in DOMAIN body.fields
    THEN PyStr(body.fields[k]) ELSE d

\* s is the first n characters of sup (all of sup when it is shorter)
FirstChars(s, sup, n) ==
    /\ Len(s) = Min(n, Len(sup))
    /\ \A k \in 1..Len(s) : s[k] = sup[k]

\* C5: a create_message whose text is missing (no body, an empty body, no
\* text key) or the empty string is answered 400 "text is required"; no
\* storage operation is issued and the table is left as it was.
C5_EmptyTextRejected ==
    (last.op = "create_message"
        /\ last.arg.kind \in {"missing", "object"}
        /\ Supplied(last.arg, "text", EMPTY) = EMPTY) =>
        /\ last.status = 400
        /\ last.body = [error |-> "text is required"]
        /\ last.calls = <<>>
        /\ ~last.changed

\* an empty text was rejected while the table held a message
C5_Witness ==
    /\ last.op = "create_message" /\ last.status = 400
    /\ last.arg = JObject([text |-> JStr(EMPTY)])
    /\ Items(table) # {}

\* C6: a create_message answered 201 stores and returns as user the first
\* 64 characters of the supplied user ("anonymous" when the body has none)
\* and as text the first 4096 characters of the supplied text; every stored
\* record has a user of at most 64 and a text of at most 4096 characters.
C6_Truncated ==
    /\ \A i \in Items(table) :
          Len(i.user) <= MaxUserLen /\ Len(i.text) <= MaxTextLen
    /\ (last.op = "create_message" /\ last.status = 201) =>
          /\ last.body \in Items(table)
          /\ FirstChars(last.body.user, Supplied(last.arg, "user", ANONYMOUS), MaxUserLen)
          /\ FirstChars(last.body.text, Supplied(last.arg, "text", EMPTY), MaxTextLen)

\* a user of 65 and a text of 4097 characters were stored, cut to 64 and 4096
C6_Witness ==
    /\ last.op = "create_message" /\ last.status = 201
    /\ last.arg = JObject([user |-> JStr(LongUser), text |-> JStr(LongText)])
    /\ Len(last.body.user) = MaxUserLen /\ Len(last.body.text) = MaxTextLen
    /\ last.body \in Items(table)

\* C7: the table holds at most one record per (room_id, msg_id); a
\* create_message whose generated msg_id is already stored in the room fails
\* its conditional put, is answered 500 after that one put_item, and leaves
\* the table as it was; a stored record stays as it is in every step but a
\* delete of its key answered 204.
C7_UniqueKeys ==
    \A r \in DOMAIN table :
        \A j, k \in 1..Len(table[r]) :
            /\ table[r][k].room_id = r
            /\ table[r][j].msg_id = table[r][k].msg_id => j = k

C7_ImmutableStep ==
    RequestStep =>
        /\ \A i \in Items(table) :
              \/ i \in Items(table')
              \/ /\ last'.op = "delete_message" /\ last'.status = 204
                 /\ <<last'.room_id, last'.msg_id>> = KeyOf(i)
        /\ (last'.op = "create_message" /\ last'.calls # <<>> /\ backend = "ok"
               /\ <<last'.room_id, last'.msg_id>> \in Keys(Items(table))) =>
              /\ last'.status = 500 /\ last'.err = CondFailed
              /\ last'.calls = <<"put_item">>
              /\ table' = table

C7_UniqueImmutable == [](C7_UniqueKeys) /\ [][C7_ImmutableStep]_vars

\* a create generated the msg_id of a stored record with another ts and got
\* 500 on the failed condition
C7_Witness ==
    /\ last.op = "create_message" /\ last.status = 500 /\ last.err = CondFailed
    /\ \E i \in Items(table) : KeyOf(i) = LastKey /\ i.ts # now

\* C8: a request issues at most one storage operation; when it fails, list
\* and create answer 500, delete answers 404 on the failed existence
\* condition and 500 on any other failure, and the table is left as it was;
\* while DynamoDB throttles, no request that calls it is answered a success.
C8_SingleCallFailure ==
    /\ Len(last.calls) <= 1
    /\ (last.calls # <<>> /\ last.err # "none") =>
          /\ ~last.changed
          /\ last.status = (IF last.op = "delete_message" /\ last.err = CondFailed
                            THEN 404 ELSE 500)
    /\ (last.calls # <<>> /\ last.be # "ok") => last.err # "none"

\* the delete of a stored message met a throttled table: 500, still stored
C8_Witness ==
    /\ last.op = "delete_message" /\ last.status = 500 /\ last.err = Throttled
    /\ LastKey \in Keys(Items(table))

\* C9: list_messages and health leave the table as it is, and health,
\* calling no storage operation, answers 200 with status "ok" and the
\* configured table and region also while DynamoDB throttles.
C9_ReadOnly ==
    /\ last.op \in {"list_messages", "health"} => ~last.changed
    /\ last.op = "health" =>
          /\ last.status = 200
          /\ last.body = [status |-> "ok", table |-> "talk_messages",
                          region |-> Environ["AWS_REGION"]]
          /\ last.calls = <<>>

\* health answered while DynamoDB throttled and the table held a message
C9_Witness ==
    /\ last.op = "health" /\ last.be = Throttled /\ last.status = 200
    /\ Items(table) # {}

\* C10: the table holds exactly the records answered 201 whose key got no
\* 204 since, their number is the number of 201 answers minus the number of
\* 204 answers, and a 204 is only answered for a key that a 201 returned.
C10_Accounted ==
    /\ Items(table) = acked
    /\ Cardinality(Items(table)) = n201 - n204

C10_DeleteStep ==
    (RequestStep /\ n204' # n204) =>
        <<last'.room_id, last'.msg_id>> \in Keys(acked)

C10_Accounting == [](C10_Accounted) /\ [][C10_DeleteStep]_vars

\* creates and deletes interleaved: a message deleted, others stored
C10_Witness ==
    /\ n204 >= 1 /\ n201 >= 3
    /\ Len(table["lobby"]) = 1 /\ Len(table["dev"]) = 1

====
